---- MODULE Spec2Model ----
(***************************************************************************)
(* A model of src/src/utils/es.py: the species resolver and index router   *)
(* of ESQuery and the query compiler ESQueryBuilder.                       *)
(*                                                                         *)
(* Python values are tagged records: [t |-> "None"], [t |-> "int", v],     *)
(* [t |-> "str", v] with v the sequence of the string's characters,        *)
(* [t |-> "list", v] with v the sequence of the elements.  Dictionaries    *)
(* are TLA+ records/functions over their keys.  Field names, on which the  *)
(* code applies no character operation, are TLA+ strings.  A raised        *)
(* exception is the record [t |-> "raise", exc |-> <class name>].          *)
(***************************************************************************)
EXTENDS Integers, Sequences, FiniteSets, TLC

\* ------------------------------------------------------------ Python values

PyNone == [t |-> "None"]
PyInt(n) == [t |-> "int", v |-> n]
PyStr(cs) == [t |-> "str", v |-> cs]
PyList(xs) == [t |-> "list", v |-> xs]
PyOther == [t |-> "dict"]
Raise(e) == [t |-> "raise", exc |-> e]

IsRaise(x) == "t" \in DOMAIN x /\ x.t = "raise"

\* Python truthiness of a value: None, 0, '' and [] are false.
Truthy(x) ==
    CASE x.t = "None" -> FALSE
      [] x.t = "int" -> x.v # 0
      [] x.t = "str" -> Len(x.v) > 0
      [] x.t = "list" -> Len(x.v) > 0
      [] OTHER -> TRUE

\* len(x) of a str or list.
PyLen(x) == Len(x.v)

\* x[0] of a str (a one-character str) or list (its first element);
\* IndexError on an empty one.
PyFirst(x) ==
    IF Len(x.v) = 0 THEN Raise("IndexError")
    ELSE IF x.t = "str" THEN PyStr(<<x.v[1]>>) ELSE x.v[1]

\* ------------------------------------------------------------------ strings

UpperAlpha == <<"A","B","C","D","E","F","G","H","I","J","K","L","M",
                "N","O","P","Q","R","S","T","U","V","W","X","Y","Z">>
LowerAlpha == <<"a","b","c","d","e","f","g","h","i","j","k","l","m",
                "n","o","p","q","r","s","t","u","v","w","x","y","z">>
Digits == <<"0","1","2","3","4","5","6","7","8","9">>

Range(s) == {s[i] : i \in DOMAIN s}

UpperChars == Range(UpperAlpha)
DigitChars == Range(Digits)
\* \w of the re module
WordChars == Range(UpperAlpha) \cup Range(LowerAlpha) \cup Range(Digits) \cup {"_"}
LowerOf == [c \in UpperChars |-> LowerAlpha[CHOOSE i \in DOMAIN UpperAlpha : UpperAlpha[i] = c]]
DigitValOf == [c \in DigitChars |-> (CHOOSE i \in DOMAIN Digits : Digits[i] = c) - 1]

LowerChar(c) == IF c \in UpperChars THEN LowerOf[c] ELSE c

\* str.lower()
Lower(s) == [i \in DOMAIN s |-> LowerChar(s[i])]

IsDigit(c) == c \in DigitChars
DigitVal(c) == DigitValOf[c]
IsSpace(c) == c \in {" ", "\t", "\n"}
IsWord(c) == c \in WordChars

\* s.startswith(p)
StartsWith(s, p) == Len(s) >= Len(p) /\ SubSeq(s, 1, Len(p)) = p

\* str.strip()
RECURSIVE LStrip(_)
LStrip(s) == IF s # <<>> /\ IsSpace(Head(s)) THEN LStrip(Tail(s)) ELSE s
RECURSIVE RStrip(_)
RStrip(s) ==
    IF s # <<>> /\ IsSpace(s[Len(s)]) THEN RStrip(SubSeq(s, 1, Len(s) - 1)) ELSE s
Strip(s) == RStrip(LStrip(s))

\* s.replace(c, ''): every occurrence of the character c removed.
RemoveChar(s, c) == SelectSeq(s, LAMBDA x : x # c)

\* s.split(sep) for a one-character separator: always at least one piece.
RECURSIVE Split(_, _)
Split(s, sep) ==
    IF \E i \in DOMAIN s : s[i] = sep
    THEN LET i == CHOOSE k \in DOMAIN s : s[k] = sep /\ \A j \in 1..(k - 1) : s[j] # sep
         IN <<SubSeq(s, 1, i - 1)>> \o Split(SubSeq(s, i + 1, Len(s)), sep)
    ELSE <<s>>

\* The value of a sequence of decimal digits.
RECURSIVE DigitsValue(_)
DigitsValue(s) ==
    IF s = <<>> THEN 0
    ELSE 10 * DigitsValue(SubSeq(s, 1, Len(s) - 1)) + DigitVal(s[Len(s)])

\* The digits-and-underscores body of an integer literal accepted by int():
\* digits, with single underscores only between digits.
IntBodyOk(s) ==
    /\ s # <<>>
    /\ \A i \in DOMAIN s : IsDigit(s[i]) \/ s[i] = "_"
    /\ IsDigit(s[1]) /\ IsDigit(s[Len(s)])
    /\ \A i \in 1..(Len(s) - 1) : ~(s[i] = "_" /\ s[i + 1] = "_")

\* int(s) of a str: surrounding whitespace and one sign are accepted;
\* anything else is a ValueError.
IntOfStr(s) ==
    LET b == Strip(s)
        signed == b # <<>> /\ b[1] \in {"+", "-"}
        body == IF signed THEN Tail(b) ELSE b
    IN IF IntBodyOk(body)
       THEN PyInt((IF signed /\ b[1] = "-" THEN -1 ELSE 1)
                  * DigitsValue(RemoveChar(body, "_")))
       ELSE Raise("ValueError")

\* int(x)
PyIntOf(x) ==
    CASE x.t = "int" -> x
      [] x.t = "str" -> IntOfStr(x.v)
      [] OTHER -> Raise("TypeError")

\* biothings.utils.common.is_int: int(s) succeeds.
is_int(x) == ~IsRaise(PyIntOf(x))
is_str(x) == x.t = "str"
is_seq(x) == x.t = "list"

\* u"{}".format(x) of an int: its decimal digits.
RECURSIVE NatDigits(_)
NatDigits(n) ==
    IF n < 10 THEN <<Digits[n + 1]>> ELSE NatDigits(n \div 10) \o <<Digits[(n % 10) + 1]>>
PyFormat(x) ==
    IF x.t = "str" THEN x
    ELSE PyStr(IF x.v < 0 THEN <<"-">> \o NatDigits(-x.v) ELSE NatDigits(x.v))

\* ---------------------------------------------------------------- constants

ES_INDEX_NAME == "ES_INDEX_NAME"
ES_INDEX_NAME_TIER1 == "ES_INDEX_NAME_TIER1"

s_all == <<"a","l","l">>
s_human == <<"h","u","m","a","n">>
s_mouse == <<"m","o","u","s","e">>
s_rat == <<"r","a","t">>
s_fruitfly == <<"f","r","u","i","t","f","l","y">>
s_nematode == <<"n","e","m","a","t","o","d","e">>
s_zebrafish == <<"z","e","b","r","a","f","i","s","h">>
s_thale_cress == <<"t","h","a","l","e","-","c","r","e","s","s">>
s_frog == <<"f","r","o","g">>
s_pig == <<"p","i","g">>

TAXONOMY ==
    (s_human :> 9606) @@ (s_mouse :> 10090) @@ (s_rat :> 10116)
    @@ (s_fruitfly :> 7227) @@ (s_nematode :> 6239) @@ (s_zebrafish :> 7955)
    @@ (s_thale_cress :> 3702) @@ (s_frog :> 8364) @@ (s_pig :> 9823)

\* ESQuery.__init__
default_species == PyList(<<PyInt(9606), PyInt(10090), PyInt(10116)>>)
tier_1_species == {PyInt(TAXONOMY[k]) : k \in DOMAIN TAXONOMY}

\* ------------------------------------------------------------ ESQuery (pure)

\* A faulty router: the full index only when no id at all is tier-1.
_set_index_none_tier1(species) ==
    IF species = PyStr(s_all) \/ Range(species.v) \cap tier_1_species = {}
    THEN ES_INDEX_NAME
    ELSE ES_INDEX_NAME_TIER1

\* ESQuery._set_index: the index chosen for a resolved species value.
_set_index(species) ==
    IF species = PyStr(s_all) \/ Cardinality(Range(species.v) \ tier_1_species) > 0
    THEN ES_INDEX_NAME
    ELSE ES_INDEX_NAME_TIER1

\* The loop of _cleaned_species over the tokens of a sequence.
RECURSIVE CleanTokens(_)
CleanTokens(xs) ==
    IF xs = <<>> THEN <<>>
    ELSE LET s == Head(xs)
             rest == CleanTokens(Tail(xs))
         IN IF is_int(s) THEN <<PyIntOf(s)>> \o rest
            ELSE IF s.t = "str" /\ s.v \in DOMAIN TAXONOMY
                 THEN <<PyInt(TAXONOMY[s.v])>> \o rest
                 ELSE rest

\* ESQuery._cleaned_species
_cleaned_species(species, default_to_none) ==
    IF species.t = "None"
    THEN (IF default_to_none THEN PyNone ELSE default_species)
    ELSE IF species.t = "int" THEN PyList(<<species>>)
    ELSE IF is_str(species) /\ Lower(species.v) = s_all THEN PyStr(Lower(species.v))
    ELSE LET toks == IF is_str(species)
                     THEN PyList([i \in DOMAIN Split(species.v, ",") |->
                                     PyStr(Lower(Strip(Split(species.v, ",")[i])))])
                     ELSE species
         IN IF ~is_seq(toks) THEN Raise("ValueError")
            ELSE PyList(CleanTokens(toks.v))

\* ------------------------------------------------- ESQueryBuilder.__init__

\* dict.pop(k, default) and what is left of the dict.
Pop(kw, k, default) == IF k \in DOMAIN kw THEN kw[k] ELSE default
Without(kw, ks) == [k \in DOMAIN kw \ ks |-> kw[k]]

\* "x.split(',') if x else None" of a comma-separated str option.
SplitOption(x) ==
    IF Truthy(x)
    THEN PyList([i \in DOMAIN Split(x.v, ",") |-> PyStr(Split(x.v, ",")[i])])
    ELSE PyNone

_allowed_options ==
    {"fields", "_source", "start", "from", "size", "sort", "explain", "version",
     "aggs", "dotfield"}

ConsumedOptions ==
    {"species", "species_facet_filter", "entrezonly", "ensemblonly", "userfilter",
     "exists", "missing"}

\* A faulty normalization: the allow-list filter without the renaming.
NormalizeOptionsKeepFields(kw) ==
    LET left == Without(kw, ConsumedOptions)
    IN [k \in DOMAIN left \cap _allowed_options |-> left[k]]

\* The allow-list filter and the fields -> _source renaming of __init__.
NormalizeOptions(kw) ==
    LET left == Without(kw, ConsumedOptions)
        kept == [k \in DOMAIN left \cap _allowed_options |-> left[k]]
    IN IF "fields" \in DOMAIN kept /\ kept["fields"] # PyNone
       THEN [k \in (DOMAIN kept \ {"fields"}) \cup {"_source"} |->
                IF k = "_source" THEN kept["fields"] ELSE kept[k]]
       ELSE kept

\* ESQueryBuilder.__init__(**query_options): the builder's fields.
NewESQueryBuilder(kw) ==
    [made |-> TRUE,
     species |-> Pop(kw, "species", PyStr(s_all)),
     species_facet_filter |-> Pop(kw, "species_facet_filter", PyNone),
     entrezonly |-> Pop(kw, "entrezonly", FALSE),
     ensemblonly |-> Pop(kw, "ensemblonly", FALSE),
     userfilter |-> SplitOption(Pop(kw, "userfilter", PyNone)),
     existsfilter |-> SplitOption(Pop(kw, "exists", PyNone)),
     missingfilter |-> SplitOption(Pop(kw, "missing", PyNone)),
     _query_options |-> NormalizeOptions(kw)]

_nohits_query == [match |-> [non_exist_field |-> PyStr(<<>>)]]

\* ---------------------------------------------------------- filter composer

s_entrezgene == <<"e","n","t","r","e","z","g","e","n","e">>
s_ensemblgene == <<"e","n","s","e","m","b","l","g","e","n","e">>
s_coding == <<"c","o","d","i","n","g">>
s_nosuch == <<"n","o","s","u","c","h">>

\* The saved named-filter store behind UserFilters().get(name): the filter
\* saved under a name, or None.
UserFiltersGet(name) ==
    IF name = PyStr(s_coding)
    THEN [filter |-> [term |-> [type_of_gene |-> PyStr(s_coding)]]]
    ELSE PyNone

\* The clauses of one list option, in order.
ExistsClauses(lst) ==
    IF Truthy(lst) THEN [i \in DOMAIN lst.v |-> [exists |-> [field |-> lst.v[i]]]]
    ELSE <<>>
MissingClauses(lst) ==
    IF Truthy(lst) THEN [i \in DOMAIN lst.v |-> [missing |-> [field |-> lst.v[i]]]]
    ELSE <<>>
RECURSIVE UserClausesOf(_)
UserClausesOf(names) ==
    IF names = <<>> THEN <<>>
    ELSE LET f == UserFiltersGet(Head(names))
         IN (IF f # PyNone THEN <<f.filter>> ELSE <<>>) \o UserClausesOf(Tail(names))
UserClauses(lst) == IF Truthy(lst) THEN UserClausesOf(lst.v) ELSE <<>>

SpeciesClauses(species) ==
    IF Truthy(species) /\ species # PyStr(s_all)
    THEN IF PyLen(species) = 1
         THEN <<[term |-> [taxid |-> PyFirst(species)]]>>
         ELSE <<[terms |-> [taxid |-> species]]>>
    ELSE <<>>

\* A faulty composition: a single clause is wrapped in a conjunction too.
ConjoinAlways(filters) ==
    IF Len(filters) = 0 THEN PyList(<<>>) ELSE [and |-> filters]

\* "filters[0] if one, {'and': filters} if several": the empty list stays.
Conjoin(filters) ==
    IF Len(filters) = 0 THEN PyList(<<>>)
    ELSE IF Len(filters) = 1 THEN filters[1]
    ELSE [and |-> filters]

\* The list of clauses get_query_filters appends, in order.
QueryFilterClauses(b) ==
    SpeciesClauses(b.species)
    \o (IF b.entrezonly THEN <<[exists |-> [field |-> PyStr(s_entrezgene)]]>> ELSE <<>>)
    \o (IF b.ensemblonly THEN <<[exists |-> [field |-> PyStr(s_ensemblgene)]]>> ELSE <<>>)
    \o UserClauses(b.userfilter)
    \o ExistsClauses(b.existsfilter)
    \o MissingClauses(b.missingfilter)

\* ESQueryBuilder.get_query_filters
get_query_filters(b) == Conjoin(QueryFilterClauses(b))

\* add_query_filters of the base builder: a filtered query when there is a
\* scope filter, the query itself otherwise.
add_query_filters(b, _query) ==
    LET filters == get_query_filters(b)
    IN IF filters = PyList(<<>>) THEN _query
       ELSE [filtered |-> [query |-> _query, filter |-> filters]]

\* The clauses add_facet_filters appends.
FacetFilterClauses(b) ==
    IF Truthy(b.species_facet_filter)
    THEN IF PyLen(b.species) = 1
         THEN <<[term |-> [taxid |-> PyFirst(b.species_facet_filter)]]>>
         ELSE <<[terms |-> [taxid |-> b.species_facet_filter]]>>
    ELSE <<>>

\* ESQueryBuilder.add_facet_filters
add_facet_filters(b, _q) ==
    LET filters == FacetFilterClauses(b)
    IN IF Len(filters) = 0 THEN _q
       ELSE [k \in DOMAIN _q \cup {"filter"} |->
                IF k = "filter" THEN Conjoin(filters) ELSE _q[k]]

\* A faulty score augmenter: the mouse rule comes before the human rule and
\* the scores are multiplied.
add_species_custom_filters_score_reordered(_query) ==
    [function_score |->
        [query |-> _query,
         functions |->
            <<[filter |-> [term |-> [name |-> "pseudogene"]], boost_factor |-> "0.5"],
              [filter |-> [term |-> [taxid |-> PyInt(10090)]], boost_factor |-> "1.3"],
              [filter |-> [term |-> [taxid |-> PyInt(9606)]], boost_factor |-> "1.55"],
              [filter |-> [term |-> [taxid |-> PyInt(10116)]], boost_factor |-> "1.1"]>>,
         score_mode |-> "multiply"]]

\* ESQueryBuilder.add_species_custom_filters_score
add_species_custom_filters_score(_query) ==
    [function_score |->
        [query |-> _query,
         functions |->
            <<[filter |-> [term |-> [name |-> "pseudogene"]], boost_factor |-> "0.5"],
              [filter |-> [term |-> [taxid |-> PyInt(9606)]], boost_factor |-> "1.55"],
              [filter |-> [term |-> [taxid |-> PyInt(10090)]], boost_factor |-> "1.3"],
              [filter |-> [term |-> [taxid |-> PyInt(10116)]], boost_factor |-> "1.1"]>>,
         score_mode |-> "first"]]

\* "_q.update(self._query_options)" when the options are not empty.
WithOptions(b, _q) == b._query_options @@ _q

\* ------------------------------------------------------------ query builders

\* The legacy field names rewritten by _translate_datasource.
SOURCE_TRANSLATORS ==
    <<[src |-> <<"r","e","f","s","e","q",":">>,
       to |-> <<"r","e","f","s","e","q","_","a","g","g",":">>]>>

\* re.sub(pat, rep, s) for a literal pattern: every occurrence, left to right.
RECURSIVE ReplaceAll(_, _, _)
ReplaceAll(s, pat, rep) ==
    IF Len(s) < Len(pat) THEN s
    ELSE IF StartsWith(s, pat)
         THEN rep \o ReplaceAll(SubSeq(s, Len(pat) + 1, Len(s)), pat, rep)
         ELSE <<Head(s)>> \o ReplaceAll(Tail(s), pat, rep)

RECURSIVE TranslateFrom(_, _)
TranslateFrom(q, i) ==
    IF i > Len(SOURCE_TRANSLATORS) THEN q
    ELSE TranslateFrom(ReplaceAll(q, SOURCE_TRANSLATORS[i].src, SOURCE_TRANSLATORS[i].to), i + 1)

\* ESQueryBuilder._translate_datasource
_translate_datasource(q) == TranslateFrom(q, 1)

IsPosChar(c) == IsDigit(c) \/ c = ","
s_chr == <<"c","h","r">>
s_hg19dot == <<"h","g","1","9",".">>
s_mm9dot == <<"m","m","9",".">>

\* The first index >= j of s that is past the end or holds a character
\* outside the class: the end of the maximal run a greedy "+" takes.
RECURSIVE WordRunEnd(_, _)
WordRunEnd(s, j) == IF j > Len(s) \/ ~IsWord(s[j]) THEN j ELSE WordRunEnd(s, j + 1)
RECURSIVE PosRunEnd(_, _)
PosRunEnd(s, j) == IF j > Len(s) \/ ~IsPosChar(s[j]) THEN j ELSE PosRunEnd(s, j + 1)

\* A match of chr(\w+):([0-9,]+)-([0-9,]+) starting at index i.  The
\* character after each class is outside it, so each greedy run is maximal.
IntervalMatchAt(s, i) ==
    LET c0 == i + 3
        c1 == WordRunEnd(s, c0)
        g0 == c1 + 1
        g1 == PosRunEnd(s, g0)
        e0 == g1 + 1
        e1 == PosRunEnd(s, e0)
    IN IF /\ i + 2 <= Len(s)
          /\ SubSeq(s, i, i + 2) = s_chr
          /\ c1 > c0 /\ c1 <= Len(s) /\ s[c1] = ":"
          /\ g1 > g0 /\ g1 <= Len(s) /\ s[g1] = "-"
          /\ e1 > e0
       THEN [ok |-> TRUE,
             chr |-> PyStr(SubSeq(s, c0, c1 - 1)),
             gstart |-> PyStr(SubSeq(s, g0, g1 - 1)),
             gend |-> PyStr(SubSeq(s, e0, e1 - 1))]
       ELSE [ok |-> FALSE]

\* re.search: the match at the leftmost index that has one.
RECURSIVE IntervalSearch(_, _)
IntervalSearch(s, i) ==
    IF i > Len(s) THEN [ok |-> FALSE]
    ELSE LET m == IntervalMatchAt(s, i)
         IN IF m.ok THEN m ELSE IntervalSearch(s, i + 1)

\* ESQueryBuilder._parse_interval_query
_parse_interval_query(query) ==
    LET m == IntervalSearch(query, 1)
    IN IF m.ok
       THEN [chr |-> m.chr, gstart |-> m.gstart, gend |-> m.gend,
             assembly |-> IF StartsWith(query, s_mm9dot) THEN PyStr(<<"m","m","9">>)
                          ELSE IF StartsWith(query, s_hg19dot)
                               THEN PyStr(<<"h","g","1","9">>)
                               ELSE PyNone]
       ELSE PyNone

\* safe_genome_pos
safe_genome_pos(s) ==
    IF s.t = "int" THEN s
    ELSE IF s.t = "str" THEN IntOfStr(RemoveChar(s.v, ","))
    ELSE Raise("ValueError")

\* The chromosome token as build_genomic_pos_query uses it.
NormChr(chr) ==
    Lower(IF StartsWith(Lower(chr), s_chr) THEN SubSeq(chr, 4, Len(chr)) ELSE chr)

GenomicPosField(assembly) ==
    IF assembly = PyStr(<<"h","g","1","9">>) THEN "genomic_pos_hg19"
    ELSE IF assembly = PyStr(<<"m","m","9">>) THEN "genomic_pos_mm9"
    ELSE "genomic_pos"

\* Faulty must clauses: the two bounds of the queried range exchanged.
GenomicPosClausesSwapped(f, chr, gs, ge) ==
    <<[term |-> ((f \o ".chr") :> PyStr(NormChr(chr.v)))],
      [range |-> ((f \o ".start") :> [lte |-> gs])],
      [range |-> ((f \o ".end") :> [gte |-> ge])]>>

\* The must clauses of the nested query: the chromosome, and the overlap
\* of the stored range with [gs, ge].
GenomicPosClauses(f, chr, gs, ge) ==
    <<[term |-> ((f \o ".chr") :> PyStr(NormChr(chr.v)))],
      [range |-> ((f \o ".start") :> [lte |-> ge])],
      [range |-> ((f \o ".end") :> [gte |-> gs])]>>

\* ESQueryBuilder.build_genomic_pos_query
build_genomic_pos_query(b, chr, gstart, gend, assembly) ==
    LET gs == safe_genome_pos(gstart)
        ge == safe_genome_pos(gend)
        f == GenomicPosField(assembly)
        _query ==
            [nested |->
                [path |-> f,
                 query |-> [bool |-> [must |-> GenomicPosClauses(f, chr, gs, ge)]]]]
    IN IF IsRaise(gs) THEN gs
       ELSE IF IsRaise(ge) THEN ge
       ELSE WithOptions(b, [query |-> add_query_filters(b, _query)])

\* ESQueryBuilder.dis_max_query: the clause list, each clause a field, a
\* kind of match and a weight.
dis_max_query(q) ==
    LET qq == RemoveChar(RemoveChar(q, "\""), "\\")
        clause(kind, field, w) ==
            [function_score |-> [query |-> [kind |-> kind, field |-> field,
                                            query |-> PyStr(qq)],
                                 weight |-> w]]
    IN [dis_max |->
          [tie_breaker |-> "0", boost |-> "1",
           queries |->
              IF is_int(PyStr(qq))
              THEN <<[function_score |->
                        [query |-> [kind |-> "term", field |-> "entrezgene",
                                    query |-> PyIntOf(PyStr(qq))],
                         weight |-> "8"]]>>
              ELSE <<clause("match", "symbol", "5"),
                     clause("match_phrase", "name", "4"),
                     clause("match_and", "name", "3"),
                     clause("match", "unigene", "1.1"),
                     clause("match", "go", "1.1"),
                     clause("query_string", "_all", "1")>>]]

\* Characters that break the JSON template of wildcard_query.
BreaksJson(q) == \E i \in DOMAIN q : q[i] \in {"\"", "\\", "\n", "\t"}

\* ESQueryBuilder.wildcard_query
wildcard_query(q) ==
    LET clause(field) ==
            [function_score |-> [query |-> [kind |-> "wildcard", field |-> field,
                                            query |-> PyStr(Lower(q))]]]
    IN IF BreaksJson(q) THEN Raise("QueryError")
       ELSE [dis_max |->
               [tie_breaker |-> "0", boost |-> "1",
                queries |-> <<clause("symbol"), clause("name"), clause("summary")>>]]

\* A wildcard character anywhere but in the first position.
IsWildcardQuery(q) == \E i \in 2..Len(q) : q[i] \in {"*", "?"}

\* generate_query of the base builder: the builder for the query's intent,
\* with the scope filters added.
generate_query(b, q) ==
    LET _query == IF IsWildcardQuery(q) THEN wildcard_query(q) ELSE dis_max_query(q)
    IN IF IsRaise(_query) THEN _query ELSE add_query_filters(b, _query)

\* A faulty narrowing: the species list is kept whole.
NarrowSpeciesKeepAll(species) ==
    IF IsRaise(PyFirst(species)) THEN PyFirst(species) ELSE species

\* "self.species = [self.species[0]]" of query(): the species an interval
\* query is compiled for.
NarrowSpecies(species) ==
    IF IsRaise(PyFirst(species)) THEN PyFirst(species)
    ELSE PyList(<<PyFirst(species)>>)

\* ESQueryBuilder.query: what it returns or raises, and the builder's
\* species when it is done.
query(b, q0) ==
    LET q == _translate_datasource(q0)
        interval_query == _parse_interval_query(q)
    IN IF interval_query # PyNone
       THEN IF b.species # PyStr(s_all)
            THEN LET narrowed == NarrowSpecies(b.species)
                     b1 == [b EXCEPT !.species = narrowed]
                 IN IF IsRaise(narrowed) THEN [ret |-> narrowed, species |-> b.species]
                    ELSE [ret |-> build_genomic_pos_query(b1, interval_query.chr,
                                      interval_query.gstart, interval_query.gend,
                                      interval_query.assembly),
                          species |-> b1.species]
            ELSE [ret |-> Raise("QueryError"), species |-> b.species]
       ELSE LET _query == generate_query(b, q)
            IN [ret |-> IF IsRaise(_query) THEN _query
                        ELSE WithOptions(b, add_facet_filters(b,
                                [query |-> add_species_custom_filters_score(_query)])),
                species |-> b.species]

\* A scopes argument: one field name, or a list of field names.  Field
\* names are TLA+ strings (they become keys of the compiled query).
ScopeStr(f) == [t |-> "str", v |-> f]
ScopeList(fs) == [t |-> "list", v |-> fs]

int_only_fields == {"entrezgene", "retired"}

\* list.remove(x): the first occurrence of x removed.
RemoveFirst(xs, x) ==
    IF \E i \in DOMAIN xs : xs[i] = x
    THEN LET i == CHOOSE k \in DOMAIN xs : xs[k] = x /\ \A j \in 1..(k - 1) : xs[j] # x
         IN SubSeq(xs, 1, i - 1) \o SubSeq(xs, i + 1, Len(xs))
    ELSE xs

\* An AND-token match of the id, as text, in one field.
AndMatch(id, field) ==
    [match |-> (field :> [query |-> PyFormat(id), operator |-> "and"])]

\* A faulty single-scope branch: a non-integer id in an integer-only field
\* is an error.
SingleScopeQueryRaising(id, _field) ==
    IF _field \in int_only_fields
    THEN (IF is_int(id) THEN [match |-> (_field :> id)] ELSE Raise("ValueError"))
    ELSE AndMatch(id, _field)

\* The base query of build_id_query for scopes given as one field name.
SingleScopeQuery(id, _field) ==
    IF _field \in int_only_fields
    THEN (IF is_int(id) THEN [match |-> (_field :> id)] ELSE _nohits_query)
    ELSE AndMatch(id, _field)

\* The base query build_id_query chooses for an id and a scopes argument.
IdBaseQuery(id, scopes) ==
    LET id_is_int == is_int(id)
    IN IF scopes.t = "None"
       THEN IF id_is_int
            THEN [multi_match |-> [query |-> id, fields |-> <<"entrezgene", "retired">>]]
            ELSE AndMatch(id, "ensemblgene")
       ELSE IF is_str(scopes) THEN SingleScopeQuery(id, scopes.v)
       ELSE IF is_seq(scopes)
       THEN LET has_e == "entrezgene" \in Range(scopes.v)
                s1 == IF has_e THEN RemoveFirst(scopes.v, "entrezgene") ELSE scopes.v
                has_r == "retired" \in Range(s1)
                str_fields == IF has_r THEN RemoveFirst(s1, "retired") ELSE s1
                int_fields == (IF has_e THEN <<"entrezgene">> ELSE <<>>)
                              \o (IF has_r THEN <<"retired">> ELSE <<>>)
            IN IF id_is_int
               THEN IF Len(int_fields) = 1 THEN [match |-> (int_fields[1] :> id)]
                    ELSE IF Len(int_fields) = 2
                         THEN [multi_match |-> [query |-> id, fields |-> int_fields]]
                         ELSE _nohits_query
               ELSE IF Len(str_fields) > 0
                    THEN [multi_match |-> [query |-> PyFormat(id), fields |-> str_fields,
                                           operator |-> "and"]]
                    ELSE _nohits_query
       ELSE Raise("ValueError")

\* ESQueryBuilder.build_id_query
build_id_query(b, id, scopes) ==
    LET _query == IdBaseQuery(id, scopes)
    IN IF IsRaise(_query) THEN _query
       ELSE WithOptions(b,
               [query |-> add_species_custom_filters_score(add_query_filters(b, _query))])

\* ------------------------------------------------------- ESQuery._get_options

EmptyDict == [k \in {} |-> PyNone]

\* The taxonomy expansion service's list for a success response: the ids
\* asked for and the taxa below them.
TaxTreeJson(species) ==
    IF species.t = "list"
    THEN PyList(species.v \o (IF PyInt(9606) \in Range(species.v)
                              THEN <<PyInt(63221)>> ELSE <<>>))
    ELSE PyList(<<>>)

\* A faulty _get_options: species_facet_filter is resolved like species,
\* with the default set for an absent value.
_get_options_default_facet(kw, svc) ==
    LET s0 == _cleaned_species(Pop(kw, "species", PyNone), FALSE)
        include_tax_tree == Pop(kw, "include_tax_tree", FALSE)
        s1 == IF include_tax_tree /\ svc = "ok" THEN TaxTreeJson(s0) ELSE s0
        f0 == _cleaned_species(Pop(kw, "species_facet_filter", PyNone), FALSE)
        rest == Without(kw, {"species", "species_facet_filter", "include_tax_tree"})
    IN IF IsRaise(s0) THEN s0
       ELSE IF include_tax_tree /\ svc = "raise" THEN Raise("ConnectionError")
       ELSE IF IsRaise(f0) THEN f0
       ELSE [species |-> s1, species_facet_filter |-> f0] @@ rest

\* ESQuery._get_options on the option dict kw, with the outcome of the
\* expansion request when one is made ("ok": a success response, "error":
\* another status code, "raise": requests.post raises): the option dict it
\* returns, or what it raises.
_get_options(kw, svc) ==
    LET s0 == _cleaned_species(Pop(kw, "species", PyNone), FALSE)
        include_tax_tree == Pop(kw, "include_tax_tree", FALSE)
        s1 == IF include_tax_tree /\ svc = "ok" THEN TaxTreeJson(s0) ELSE s0
        f0 == _cleaned_species(Pop(kw, "species_facet_filter", PyNone), TRUE)
        rest == Without(kw, {"species", "species_facet_filter", "include_tax_tree"})
    IN IF IsRaise(s0) THEN s0
       ELSE IF include_tax_tree /\ svc = "raise" THEN Raise("ConnectionError")
       ELSE IF IsRaise(f0) THEN f0
       ELSE [species |-> s1, species_facet_filter |-> f0] @@ rest

\* ------------------------------------------------------------------- inputs

\* The largest genomic coordinate written without a digit-grouping comma
\* in the generated interval queries.
MaxPos == 2

s_foo == <<"f","o","o">>
s_hg19 == <<"h","g","1","9">>
s_mm9 == <<"m","m","9">>

\* Species selectors a request may carry.
SpeciesSelectors ==
    {PyNone, PyStr(s_all), PyStr(s_human), PyInt(9913), PyStr(s_foo),
     PyStr(<<"H","u","m","a","n",","," ","1","0","0","9","0">>)}

FacetSelectors ==
    {PyNone, PyStr(<<"A","L","L">>), PyInt(10090), PyStr(s_human \o <<",">> \o s_mouse)}

\* Every shape of selector _cleaned_species is written for, and one it
\* rejects.
AllSpeciesSelectors ==
    SpeciesSelectors \cup
    {PyInt(9606), PyOther, PyStr(<<"A","l","l">>), PyStr(<<" ","a","l","l">>),
     PyStr(s_foo \o <<",">> \o s_rat),
     PyStr(<<"9","9","1","3",",","7","2","2","7">>),
     PyList(<<PyStr(s_mouse), PyInt(7955)>>),
     PyList(<<PyStr(s_all)>>), PyList(<<PyStr(s_foo), PyNone>>), PyList(<<>>)}

AllFacetSelectors == FacetSelectors \cup {PyStr(s_foo), PyOther, PyList(<<PyInt(9913)>>)}

ServiceOutcomes == {"ok", "error", "raise"}

\* key -> value when the option is given, the empty dict when it is not.
Opt(k, given, v) == IF given THEN (k :> v) ELSE EmptyDict

s_a == <<"a">>
s_ab == <<"a",",","b">>
s_symbol == <<"s","y","m","b","o","l">>

\* The pass-through options of a request.
PassOptions ==
    [fields |-> PyStr(s_symbol), size |-> PyInt(10), callback |-> PyStr(s_foo)]

\* The filter settings of a request: every combination.
AllFilterOptions ==
    {Opt("entrezonly", e, TRUE) @@ Opt("ensemblonly", n, TRUE)
       @@ Opt("userfilter", u # PyNone, u) @@ Opt("exists", x, PyStr(s_ab))
       @@ Opt("missing", m, PyStr(s_a)) :
       e \in BOOLEAN, n \in BOOLEAN,
       u \in {PyNone, PyStr(s_nosuch), PyStr(s_coding \o <<",">> \o s_nosuch)},
       x \in BOOLEAN, m \in BOOLEAN}

\* No option, one filter with pass-through options, several filters.
BuilderOptions ==
    {EmptyDict,
     Opt("entrezonly", TRUE, TRUE) @@ PassOptions,
     Opt("userfilter", TRUE, PyStr(s_coding \o <<",">> \o s_nosuch))
       @@ Opt("missing", TRUE, PyStr(s_a))}

\* Option maps for the normalization: the field selection absent, None or
\* given, with or without the engine's own key, an allow-listed option, an
\* unknown option and a filter setting.
FieldOptions == {EmptyDict, [fields |-> PyNone], [fields |-> PyStr(s_symbol)]}
PassThroughOptions ==
    {f @@ Opt("_source", s, PyStr(s_a)) @@ Opt("size", z, PyInt(10))
       @@ Opt("callback", c, PyStr(s_foo)) @@ Opt("entrezonly", e, TRUE) :
       f \in FieldOptions, s \in BOOLEAN, z \in BOOLEAN, c \in BOOLEAN, e \in BOOLEAN}

\* Genomic interval queries: an optional assembly prefix, a chromosome and
\* two positions, plain or with digit-grouping commas (or commas alone).
PosStrings == {NatDigits(n) : n \in 0..MaxPos} \cup {<<"1",",","0">>, <<",">>}

IntervalPrefixes ==
    {<<"x"," ">> \o s_chr \o <<"1">>,
     s_hg19dot \o s_chr \o s_chr \o <<"X">>}

IntervalQueries ==
    {pre \o <<":">> \o a \o <<"-">> \o b :
        pre \in IntervalPrefixes, a \in PosStrings, b \in PosStrings}

\* Raw queries: free text, an integer, wildcards, a legacy field name, a
\* query that only starts like an interval, and intervals.
RawQueries ==
    {<<"c","d","k","2">>, <<"1","0","1","7">>, <<"C","D","K","*">>,
     <<"c","\"","?">>, <<"r","e","f","s","e","q",":","N","M">>,
     <<"c","h","r","1",":","5">>,
     s_chr \o <<"1",":","1","-","2">>,
     s_mm9dot \o s_chr \o <<"Y",":","2",",","0","-","1">>}

Ids == {PyInt(1017), PyStr(<<"1","0","1","7">>), PyStr(<<"c","d","k","2">>),
        PyStr(<<"1",".","5">>)}

Scopes ==
    {PyNone, PyOther, ScopeStr("entrezgene"), ScopeStr("retired"), ScopeStr("symbol"),
     ScopeList(<<"entrezgene", "symbol">>), ScopeList(<<"retired", "entrezgene">>),
     ScopeList(<<"symbol", "alias">>), ScopeList(<<"retired">>), ScopeList(<<>>)}

\* A chromosome argument and an assembly argument.
ChrAssemblies ==
    {[chr |-> PyStr(<<"C","H","R","x">>), assembly |-> PyNone],
     [chr |-> PyStr(<<"1">>), assembly |-> PyStr(s_hg19)],
     [chr |-> PyStr(<<"c","h","r","1">>), assembly |-> PyStr(s_mm9)]}
Positions == {PyInt(n) : n \in 0..MaxPos} \cup {PyStr(<<"1",",","0">>), PyOther}

\* -------------------------------------------------------------------- state

VARIABLES
    _index,     \* ESQuery._index
    pc,         \* where the request stands: idle, options, built, searching,
                \* failed
    kwargs,     \* the option dict _get_options returned
    esqb,       \* the request's ESQueryBuilder
    call,       \* the last operation and its arguments
    ret,        \* what the last operation returned or raised
    searches    \* the _search / _msearch calls running on the instance, one
                \* per thread: where each stands and what it was given

vars == <<_index, pc, kwargs, esqb, call, ret, searches>>

\* The threads that may run a search on the one ESQuery instance.
NumThreads == 2
Threads == 1..NumThreads

\* A thread running no search.
NoSearch == [pc |-> "idle"]

NoBuilder == [made |-> FALSE]

Init ==
    /\ _index = ES_INDEX_NAME
    /\ pc = "idle"
    /\ kwargs = EmptyDict
    /\ esqb = NoBuilder
    /\ call = [op |-> "init"]
    /\ ret = PyNone
    /\ searches = [t \in Threads |-> NoSearch]

\* A request starts: ESQuery._get_options resolves its species options,
\* drawn from the selectors SS and FS.
GetOptionsOn(SS, FS) ==
    /\ pc = "idle"
    /\ \E sp \in SS, sff \in FS, tree \in BOOLEAN, svc \in ServiceOutcomes :
        LET kw == [species |-> sp, species_facet_filter |-> sff,
                   include_tax_tree |-> tree]
            r == _get_options(kw, svc)
        IN /\ (~tree => svc = "ok")
           /\ call' = [op |-> "_get_options", species |-> sp,
                       species_facet_filter |-> sff, include_tax_tree |-> tree,
                       svc |-> svc]
           /\ ret' = IF IsRaise(r) THEN r ELSE PyNone
           /\ kwargs' = IF IsRaise(r) THEN EmptyDict ELSE r
           /\ pc' = IF IsRaise(r) THEN "failed" ELSE "options"
    /\ UNCHANGED <<_index, esqb, searches>>

\* ESQuery._get_query_builder: ESQueryBuilder(**kwargs), with the request's
\* other options drawn from OS; with no resolved options (a builder made
\* directly, as make_test_index does) species is left to its default.
NewBuilderOn(OS) ==
    /\ pc \in {"idle", "options"}
    /\ \E o \in OS :
        /\ esqb' = NewESQueryBuilder(kwargs @@ o)
        /\ call' = [op |-> "ESQueryBuilder", options |-> o]
    /\ ret' = PyNone
    /\ pc' = "built"
    /\ UNCHANGED <<_index, kwargs, searches>>

\* ESQueryBuilder.query(q), q drawn from QS.
QueryOn(QS) ==
    /\ pc = "built"
    /\ \E q \in QS :
        LET r == query(esqb, q)
        IN /\ call' = [op |-> "query", q |-> q, species |-> esqb.species]
           /\ ret' = r.ret
           /\ esqb' = [esqb EXCEPT !.species = r.species]
    /\ UNCHANGED <<_index, pc, kwargs, searches>>

\* ESQueryBuilder.build_id_query(id, scopes)
BuildIdQueryOn(IS, SC) ==
    /\ pc = "built"
    /\ \E id \in IS, scopes \in SC :
        /\ call' = [op |-> "build_id_query", id |-> id, scopes |-> scopes]
        /\ ret' = build_id_query(esqb, id, scopes)
    /\ UNCHANGED <<_index, pc, kwargs, esqb, searches>>

\* ESQueryBuilder.build_genomic_pos_query(chr, gstart, gend, assembly)
BuildGenomicPosQueryOn(CA, PS) ==
    /\ pc = "built"
    /\ \E ca \in CA, gstart \in PS, gend \in PS :
        /\ call' = [op |-> "build_genomic_pos_query", chr |-> ca.chr,
                    gstart |-> gstart, gend |-> gend, assembly |-> ca.assembly]
        /\ ret' = build_genomic_pos_query(esqb, ca.chr, gstart, gend, ca.assembly)
    /\ UNCHANGED <<_index, pc, kwargs, esqb, searches>>

\* ESQueryBuilder.get_query_filters()
GetQueryFilters ==
    /\ pc = "built"
    /\ call' = [op |-> "get_query_filters"]
    /\ ret' = get_query_filters(esqb)
    /\ UNCHANGED <<_index, pc, kwargs, esqb, searches>>

IsCompiled(r) == ~IsRaise(r) /\ "query" \in DOMAIN r

\* ESQuery._search, up to the engine call: the index is routed for the
\* species of the request ('all' when none was resolved).
SearchSetIndex ==
    /\ pc = "built"
    /\ IsCompiled(ret)
    /\ LET species == Pop(kwargs, "species", PyStr(s_all))
       IN /\ _index' = _set_index(species)
          /\ call' = [op |-> "_search", species |-> species]
    /\ pc' = "searching"
    /\ ret' = PyNone
    /\ kwargs' = EmptyDict
    /\ esqb' = NoBuilder
    /\ UNCHANGED searches

\* ESQuery._search, the engine call and after: the index is reset when the
\* engine returns; when the engine raises, the exception leaves _search.
SearchEngine ==
    /\ pc = "searching"
    /\ \E raised \in BOOLEAN :
        /\ _index' = IF raised THEN _index ELSE ES_INDEX_NAME
        /\ ret' = IF raised THEN Raise("TransportError") ELSE [hits |-> "hits"]
    /\ pc' = "idle"
    /\ UNCHANGED <<kwargs, esqb, call, searches>>

\* The request ends without a search (the query was only compiled, or an
\* exception reached the caller): its options and builder are dropped.
EndRequest ==
    /\ pc \in {"options", "built", "failed"}
    /\ pc' = "idle"
    /\ kwargs' = EmptyDict
    /\ esqb' = NoBuilder
    /\ call' = [op |-> "init"]
    /\ ret' = PyNone
    /\ UNCHANGED <<_index, searches>>

\* ESQuery.metadata: the mapping is read from the index the instance
\* currently points at, with no routing.
Metadata ==
    /\ pc = "idle"
    /\ call' = [op |-> "metadata", index |-> _index]
    /\ ret' = [mapping |-> _index]
    /\ UNCHANGED <<_index, pc, kwargs, esqb, searches>>

\* Resolved species values a search is routed for, and the two searches.
SearchSpecies ==
    {PyStr(s_all), PyList(<<PyInt(9606)>>), PyList(<<PyInt(9913)>>), default_species}
SearchOps == {"_search", "_msearch"}

\* _search / _msearch on thread t, first statement: self._set_index(species).
ThreadSetIndex(t) ==
    /\ searches[t].pc = "idle"
    /\ \E op \in SearchOps, species \in SearchSpecies :
        /\ _index' = _set_index(species)
        /\ searches' = [searches EXCEPT
                            ![t] = [pc |-> "routed", op |-> op, species |-> species]]
    /\ UNCHANGED <<pc, kwargs, esqb, call, ret>>

\* The engine call is issued: self._index is read as it stands now.
ThreadEngineCall(t) ==
    /\ searches[t].pc = "routed"
    /\ searches' = [searches EXCEPT
                        ![t] = [pc |-> "called", op |-> searches[t].op,
                                species |-> searches[t].species, index |-> _index]]
    /\ UNCHANGED <<_index, pc, kwargs, esqb, call, ret>>

\* The engine call is over: when it returned, self._index is reset; when
\* it raised, the exception leaves the method before the reset.
ThreadReturn(t) ==
    /\ searches[t].pc = "called"
    /\ \E raised \in BOOLEAN :
        _index' = IF raised THEN _index ELSE ES_INDEX_NAME
    /\ searches' = [searches EXCEPT ![t] = NoSearch]
    /\ UNCHANGED <<pc, kwargs, esqb, call, ret>>

GetOptions == GetOptionsOn(SpeciesSelectors, FacetSelectors)
NewBuilder == NewBuilderOn(BuilderOptions)
Query == QueryOn(RawQueries)
BuildIdQuery == BuildIdQueryOn({PyInt(1017), PyStr(<<"c","d","k","2">>)},
                               {PyNone, ScopeStr("entrezgene"), ScopeList(<<"symbol">>)})
BuildGenomicPosQuery ==
    BuildGenomicPosQueryOn({[chr |-> PyStr(<<"1">>), assembly |-> PyNone]},
                           {PyInt(1), PyStr(<<"1",",","0">>)})

\* Requests through the whole path, from the options to the search.
Next ==
    \/ GetOptions
    \/ NewBuilder
    \/ Query
    \/ BuildIdQuery
    \/ BuildGenomicPosQuery
    \/ GetQueryFilters
    \/ SearchSetIndex
    \/ SearchEngine
    \/ Metadata
    \/ EndRequest

Spec == Init /\ [][Next]_vars

\* The species resolver on every shape of selector.
GetOptionsAny == GetOptionsOn(AllSpeciesSelectors, AllFacetSelectors)
NextOptions == GetOptionsAny \/ EndRequest
SpecOptions == Init /\ [][NextOptions]_vars

\* The filter composer under every combination of filter settings.
NewBuilderAny == NewBuilderOn(AllFilterOptions)
NextFilters == GetOptions \/ NewBuilderAny \/ GetQueryFilters \/ EndRequest
SpecFilters == Init /\ [][NextFilters]_vars

\* The genomic interval builder on every generated interval.
GetOptionsOne == GetOptionsOn({PyStr(s_all), PyStr(s_human), PyStr(s_foo)}, {PyNone})
NewBuilderPlain == NewBuilderOn({EmptyDict})
QueryInterval == QueryOn(IntervalQueries)
BuildGenomicPosQueryAny == BuildGenomicPosQueryOn(ChrAssemblies, Positions)
NextGenomic ==
    \/ GetOptionsOne
    \/ NewBuilderPlain
    \/ QueryInterval
    \/ BuildGenomicPosQueryAny
    \/ EndRequest
SpecGenomic == Init /\ [][NextGenomic]_vars

\* The scoped-identifier builder on every shape of id and scopes.
BuildIdQueryAny == BuildIdQueryOn(Ids, Scopes)
NextIds == GetOptionsOne \/ NewBuilderOn(BuilderOptions) \/ BuildIdQueryAny \/ EndRequest
SpecIds == Init /\ [][NextIds]_vars

\* Searches running concurrently on one ESQuery instance, one per thread,
\* their statements interleaved.
SetIndexStep == \E t \in Threads : ThreadSetIndex(t)
EngineCallStep == \E t \in Threads : ThreadEngineCall(t)
ReturnStep == \E t \in Threads : ThreadReturn(t)
NextConcurrent == SetIndexStep \/ EngineCallStep \/ ReturnStep
SpecConcurrent == Init /\ [][NextConcurrent]_vars

\* Compilation of free-text queries and of scoped-identifier queries of
\* every shape, under the builder options.
NextCompile == GetOptionsOne \/ NewBuilder \/ Query \/ BuildIdQueryAny \/ EndRequest
SpecCompile == Init /\ [][NextCompile]_vars

\* The option normalization, and what each kind of compilation carries of
\* the normalized options.
NewBuilderPassThrough == NewBuilderOn(PassThroughOptions)
QueryTwo == QueryOn({<<"c","d","k","2">>, s_chr \o <<"1",":","1","-","2">>})
BuildIdQueryOne == BuildIdQueryOn({PyStr(<<"c","d","k","2">>)}, {ScopeStr("symbol")})
NextNormalize ==
    \/ GetOptionsOne
    \/ NewBuilderPassThrough
    \/ QueryTwo
    \/ BuildIdQueryOne
    \/ BuildGenomicPosQuery
    \/ EndRequest
SpecNormalize == Init /\ [][NextNormalize]_vars

\* ------------------------------------------------------------------- claims

Tier1Ids == {9606, 10090, 10116, 7227, 6239, 7955, 3702, 8364, 9823}
IsAll(species) == species.t = "str" /\ species.v = <<"a","l","l">>
IdsOf(species) == {species.v[i].v : i \in DOMAIN species.v}

\* C1: when _search has routed the index for a resolved species value, the
\* index is the full one if the value is 'all' or holds an id outside the
\* tier-1 set, and it is the tier-1 one exactly when every id of the list is
\* in the tier-1 set.
C1_IndexRouting ==
    pc = "searching" =>
        LET sp == call.species
        IN /\ (IsAll(sp) \/ (~IsAll(sp) /\ \E x \in IdsOf(sp) : x \notin Tier1Ids))
                => _index = ES_INDEX_NAME
           /\ _index = ES_INDEX_NAME_TIER1
                <=> (~IsAll(sp) /\ \A x \in IdsOf(sp) : x \in Tier1Ids)

\* A search routed to the full index for a list that mixes a tier-1 id with
\* one outside the tier-1 set.
C1_Witness ==
    /\ pc = "searching"
    /\ ~IsAll(call.species)
    /\ \E x \in IdsOf(call.species) : x \in Tier1Ids
    /\ \E x \in IdsOf(call.species) : x \notin Tier1Ids
    /\ _index = ES_INDEX_NAME

\* The last call was query() on a raw query holding a genomic interval.
IntervalCall ==
    /\ call.op = "query"
    /\ _parse_interval_query(_translate_datasource(call.q)) # PyNone

\* The clauses of the scope filter of a compiled query expression.
ScopeClauses(q) ==
    IF "filtered" \notin DOMAIN q THEN <<>>
    ELSE IF "and" \in DOMAIN q.filtered.filter THEN q.filtered.filter.and
    ELSE <<q.filtered.filter>>

IsTaxidClause(c) ==
    \/ "term" \in DOMAIN c /\ "taxid" \in DOMAIN c.term
    \/ "terms" \in DOMAIN c /\ "taxid" \in DOMAIN c.terms

IdBaseOf(r) ==
    LET inner == r.query.function_score.query
    IN IF "filtered" \in DOMAIN inner THEN inner.filtered.query ELSE inner

ZeroHitQuery == [match |-> [non_exist_field |-> PyStr(<<>>)]]

\* The last call was build_id_query with one integer-only scope field.
IntOnlyScopeCall ==
    /\ call.op = "build_id_query"
    /\ call.scopes.t = "str"
    /\ call.scopes.v \in {"entrezgene", "retired"}

\* C3: build_id_query with scopes one integer-only field never raises; for
\* an id that is not integer-shaped the base query is the zero-hit query, and
\* for an integer-shaped id it is an exact match of the id on that field.
C3_IntOnlyScope ==
    IntOnlyScopeCall =>
        /\ IsCompiled(ret)
        /\ ~is_int(call.id) => IdBaseOf(ret) = ZeroHitQuery
        /\ is_int(call.id) =>
              /\ DOMAIN IdBaseOf(ret) = {"match"}
              /\ DOMAIN IdBaseOf(ret).match = {call.scopes.v}
              /\ IdBaseOf(ret).match[call.scopes.v] = call.id

\* A text id scoped to entrezgene compiled to the zero-hit query.
C3_Witness ==
    /\ IntOnlyScopeCall
    /\ call.id = PyStr(<<"c","d","k","2">>)
    /\ IsCompiled(ret)
    /\ IdBaseOf(ret) = ZeroHitQuery

\* A resolved species value as the data model has it: 'all', or a list of
\* integer ids that is not empty.
WellResolved(x) ==
    \/ IsAll(x)
    \/ /\ x.t = "list"
       /\ Len(x.v) > 0
       /\ \A i \in DOMAIN x.v : x.v[i].t = "int"

\* C4: every selector _cleaned_species accepts resolves to 'all' or to a
\* non-empty list of integer ids.  Both options of _get_options are looked
\* at: species_facet_filter when it is given, and species when no tree
\* expansion was asked for.
C4_ResolvedNonEmpty ==
    (call.op = "_get_options" /\ pc = "options") =>
        /\ call.species_facet_filter # PyNone => WellResolved(kwargs.species_facet_filter)
        /\ ~call.include_tax_tree => WellResolved(kwargs.species)

\* The taxid clauses a filter expression holds.
FilterClauses(f) ==
    IF "t" \in DOMAIN f THEN <<>>
    ELSE IF "and" \in DOMAIN f THEN f.and
    ELSE <<f>>
HasTaxidClause(f) == \E i \in DOMAIN FilterClauses(f) : IsTaxidClause(FilterClauses(f)[i])

\* C5: a species selector that resolved to 'all' puts no taxid clause in the
\* compiled query: neither in the scope filter of get_query_filters for the
\* species option, nor in the post-filter of add_facet_filters for the
\* species_facet_filter option.
C5_AllNoTaxid ==
    /\ (call.op = "get_query_filters" /\ IsAll(esqb.species)) => ~HasTaxidClause(ret)
    /\ (call.op = "query" /\ IsCompiled(ret) /\ ~IntervalCall
          /\ esqb.species_facet_filter # PyNone /\ IsAll(esqb.species_facet_filter))
         => ("filter" \notin DOMAIN ret \/ ~HasTaxidClause(ret.filter))

\* The arguments build_genomic_pos_query was last run with: its own when it
\* was called directly, the parsed interval when query() called it.
GenomicArgs ==
    IF call.op = "query" THEN _parse_interval_query(_translate_datasource(call.q))
    ELSE [chr |-> call.chr, gstart |-> call.gstart, gend |-> call.gend,
          assembly |-> call.assembly]

\* The last call compiled a genomic position query.
GenomicCompiled ==
    /\ \/ call.op = "build_genomic_pos_query"
       \/ IntervalCall
    /\ IsCompiled(ret)

\* The nested query of a compiled genomic position query.
NestedOf(r) ==
    IF "filtered" \in DOMAIN r.query THEN r.query.filtered.query.nested
    ELSE r.query.nested

\* Stored positions: a chromosome and a range start <= end.
StoredChrs == {<<"1">>, <<"x">>}
StoredPositions ==
    {p \in [chr : StoredChrs, start : 0..(MaxPos + 1), end : 0..(MaxPos + 1)] :
        p.start <= p.end}

\* The engine's evaluation of a nested bool/must query on one position
\* stored under the nested path: a term clause asks for equality, a range
\* clause for lte / gte on its bounds.
StoredDoc(path, p) ==
    ((path \o ".chr") :> PyStr(p.chr)) @@ ((path \o ".start") :> PyInt(p.start))
    @@ ((path \o ".end") :> PyInt(p.end))
ClauseMatches(c, doc) ==
    IF "term" \in DOMAIN c
    THEN \A k \in DOMAIN c.term : k \in DOMAIN doc /\ doc[k] = c.term[k]
    ELSE \A k \in DOMAIN c.range :
            /\ k \in DOMAIN doc
            /\ "lte" \in DOMAIN c.range[k] => doc[k].v <= c.range[k].lte.v
            /\ "gte" \in DOMAIN c.range[k] => doc[k].v >= c.range[k].gte.v
NestedMatches(n, p) ==
    \A i \in DOMAIN n.query.bool.must :
        ClauseMatches(n.query.bool.must[i], StoredDoc(n.path, p))

\* The prefix-stripped, lower-cased chromosome of the call.
ExpectedChr ==
    LET c == GenomicArgs.chr.v
        low == Lower(c)
    IN IF Len(low) >= 3 /\ SubSeq(low, 1, 3) = <<"c","h","r">>
       THEN SubSeq(low, 4, Len(low)) ELSE low

\* C6: the compiled genomic position query matches a stored position
\* exactly when its chr is the normalized chromosome, its start is <= the
\* queried end and its end is >= the queried start, bounds included.
C6_IntervalOverlap ==
    GenomicCompiled =>
        \A p \in StoredPositions :
            NestedMatches(NestedOf(ret), p)
              <=> /\ p.chr = ExpectedChr
                  /\ p.start <= safe_genome_pos(GenomicArgs.gend).v
                  /\ p.end >= safe_genome_pos(GenomicArgs.gstart).v

\* A query for [0, 1] on chromosome x that matches the stored range [1, 2],
\* which it touches at one endpoint, and not the stored range [2, 2].
C6_Witness ==
    /\ call.op = "build_genomic_pos_query"
    /\ IsCompiled(ret)
    /\ call.gstart = PyInt(0) /\ call.gend = PyInt(1)
    /\ NestedMatches(NestedOf(ret), [chr |-> <<"x">>, start |-> 1, end |-> 2])
    /\ ~NestedMatches(NestedOf(ret), [chr |-> <<"x">>, start |-> 2, end |-> 2])

\* The bounds of the range clauses of a compiled genomic position query.
LowerBoundOf(r) == NestedOf(r).query.bool.must[3].range[NestedOf(r).path \o ".end"].gte.v
UpperBoundOf(r) == NestedOf(r).query.bool.must[2].range[NestedOf(r).path \o ".start"].lte.v

\* C7: for every raw interval string that _parse_interval_query accepts and
\* query() compiles, the lower bound of the range clauses is not greater than
\* the upper bound.
C7_StartBeforeEnd ==
    (IntervalCall /\ IsCompiled(ret)) => LowerBoundOf(ret) <= UpperBoundOf(ret)

\* The clauses the builder's settings call for, as a set, and their number:
\* one for a species list that is not empty, one for entrezonly, one for
\* ensemblonly, one for each saved filter that resolves, one for each exists
\* field and one for each missing field.
ListOf(x) == IF x.t = "list" THEN x.v ELSE <<>>
SavedFilter(name) ==
    IF name = PyStr(<<"c","o","d","i","n","g">>)
    THEN {[term |-> [type_of_gene |-> PyStr(<<"c","o","d","i","n","g">>)]]}
    ELSE {}
ExpectedClauses(b) ==
    (IF b.species.t = "list" /\ Len(b.species.v) = 1
     THEN {[term |-> [taxid |-> b.species.v[1]]]} ELSE {})
    \cup (IF b.species.t = "list" /\ Len(b.species.v) > 1
          THEN {[terms |-> [taxid |-> b.species]]} ELSE {})
    \cup (IF b.entrezonly THEN {[exists |-> [field |-> PyStr(s_entrezgene)]]} ELSE {})
    \cup (IF b.ensemblonly THEN {[exists |-> [field |-> PyStr(s_ensemblgene)]]} ELSE {})
    \cup UNION {SavedFilter(ListOf(b.userfilter)[i]) : i \in DOMAIN ListOf(b.userfilter)}
    \cup {[exists |-> [field |-> ListOf(b.existsfilter)[i]]] :
             i \in DOMAIN ListOf(b.existsfilter)}
    \cup {[missing |-> [field |-> ListOf(b.missingfilter)[i]]] :
             i \in DOMAIN ListOf(b.missingfilter)}
ExpectedCount(b) ==
    (IF b.species.t = "list" /\ Len(b.species.v) > 0 THEN 1 ELSE 0)
    + (IF b.entrezonly THEN 1 ELSE 0) + (IF b.ensemblonly THEN 1 ELSE 0)
    + Cardinality({i \in DOMAIN ListOf(b.userfilter) :
                      SavedFilter(ListOf(b.userfilter)[i]) # {}})
    + Len(ListOf(b.existsfilter)) + Len(ListOf(b.missingfilter))

\* C8: get_query_filters returns the empty value for no clause, the clause
\* itself for one clause, and one AND over all the clauses for two or more;
\* a saved-filter name that resolves to nothing adds no clause and no error.
C8_FilterComposition ==
    call.op = "get_query_filters" =>
        LET n == ExpectedCount(esqb)
        IN /\ ~IsRaise(ret)
           /\ n = 0 => ret = PyList(<<>>)
           /\ n = 1 => {ret} = ExpectedClauses(esqb)
           /\ n >= 2 =>
                 /\ DOMAIN ret = {"and"}
                 /\ Len(ret.and) = n
                 /\ Range(ret.and) = ExpectedClauses(esqb)

\* One clause returned bare, on a builder one of whose saved-filter names
\* resolves to nothing.
C8_Witness ==
    /\ call.op = "get_query_filters"
    /\ esqb.userfilter.t = "list"
    /\ \E i \in DOMAIN esqb.userfilter.v : SavedFilter(esqb.userfilter.v[i]) = {}
    /\ ExpectedCount(esqb) = 1
    /\ "and" \notin DOMAIN ret
    /\ {ret} = ExpectedClauses(esqb)

\* The taxonomy ids a post-filter lets through, among the ids probed.
ProbeTaxids == {9606, 10090, 10116, 9913}
TaxidClauseAdmits(c, x) ==
    IF "term" \in DOMAIN c THEN c.term.taxid = PyInt(x)
    ELSE c.terms.taxid.t = "list" /\ PyInt(x) \in Range(c.terms.taxid.v)
FilterAdmits(f, x) ==
    \A i \in DOMAIN FilterClauses(f) :
        IsTaxidClause(FilterClauses(f)[i]) => TaxidClauseAdmits(FilterClauses(f)[i], x)

\* C9: when species_facet_filter is a list of taxonomy ids, every compiled
\* query returned by query() has a top-level filter that lets through
\* exactly the documents whose taxid is in species_facet_filter, whatever the
\* species option and the intent of the raw query.
C9_PostFilter ==
    (call.op = "query" /\ IsCompiled(ret)
       /\ esqb.species_facet_filter.t = "list" /\ Len(esqb.species_facet_filter.v) > 0)
      => /\ "filter" \in DOMAIN ret
         /\ \A x \in ProbeTaxids :
               FilterAdmits(ret.filter, x) <=> x \in IdsOf(esqb.species_facet_filter)

\* The last call was _get_options with the tree expansion asked for, on
\* selectors the resolver accepts, and the expansion service did not answer
\* with success.
ExpansionFailed ==
    /\ call.op = "_get_options"
    /\ call.include_tax_tree
    /\ call.svc \in {"error", "raise"}
    /\ ~IsRaise(_cleaned_species(call.species, FALSE))
    /\ ~IsRaise(_cleaned_species(call.species_facet_filter, TRUE))

\* C10: a failure of the expansion service, a non-success response or the
\* call itself failing, never fails the request and leaves the species
\* option at the originally resolved ids.
C10_ExpansionFailureSoft ==
    ExpansionFailed =>
        /\ ~IsRaise(ret)
        /\ pc = "options"
        /\ kwargs.species = _cleaned_species(call.species, FALSE)

\* C11: under every interleaving of concurrent searches on one instance,
\* each engine call is issued against the index the router chose for that
\* call's own species.
C11_OwnIndex ==
    \A t \in Threads :
        searches[t].pc = "called" =>
            searches[t].index = _set_index(searches[t].species)

\* The builder as it was constructed for the request: its species is the
\* species option it was given ('all' when none was).
FreshBuilder == [esqb EXCEPT !.species = Pop(kwargs, "species", PyStr(s_all))]

\* What the last compilation returns on the builder as constructed.
FreshResult ==
    IF call.op = "query" THEN query(FreshBuilder, call.q).ret
    ELSE IF call.op = "build_id_query"
         THEN build_id_query(FreshBuilder, call.id, call.scopes)
         ELSE build_genomic_pos_query(FreshBuilder, call.chr, call.gstart, call.gend,
                                      call.assembly)

\* C12: after any sequence of compilations on a builder, the builder's
\* settings are those it was constructed with, and the last compilation
\* returned what it returns on a freshly constructed builder.
C12_Stateless ==
    call.op \in {"query", "build_id_query", "build_genomic_pos_query"} =>
        /\ esqb = FreshBuilder
        /\ ret = FreshResult

\* The last call was _get_options and it returned the resolved options.
OptionsResolved == call.op = "_get_options" /\ pc = "options"

\* The species option of the last _get_options call was replaced by the
\* expansion service's list.
Expanded == call.include_tax_tree /\ call.svc = "ok"

\* C13: in the options _get_options returns, an absent species has become
\* the default set 9606, 10090, 10116 and an absent species_facet_filter is
\* still absent; a species_facet_filter that is given resolves to what the
\* same selector resolves to as species.
C13_Fallbacks ==
    OptionsResolved =>
        /\ (call.species = PyNone /\ ~Expanded)
              => kwargs.species = PyList(<<PyInt(9606), PyInt(10090), PyInt(10116)>>)
        /\ call.species_facet_filter = PyNone => kwargs.species_facet_filter = PyNone
        /\ call.species_facet_filter # PyNone
              => kwargs.species_facet_filter
                   = _cleaned_species(call.species_facet_filter, FALSE)
        /\ (call.species = call.species_facet_filter /\ call.species # PyNone
               /\ ~Expanded)
              => kwargs.species = kwargs.species_facet_filter

\* Neither option given: the default set for species, nothing for the
\* facet filter.
C13_Witness ==
    /\ OptionsResolved
    /\ call.species = PyNone /\ call.species_facet_filter = PyNone
    /\ kwargs.species = PyList(<<PyInt(9606), PyInt(10090), PyInt(10116)>>)
    /\ kwargs.species_facet_filter = PyNone

\* The last call compiled a scoped-identifier query or a query that is not
\* a genomic interval.
ScoredCall ==
    /\ \/ call.op = "build_id_query"
       \/ call.op = "query" /\ ~IntervalCall
    /\ IsCompiled(ret)

\* The boost factors the engine is given, in hundredths.
FactorValue == ("0.5" :> 50) @@ ("1.55" :> 155) @@ ("1.3" :> 130) @@ ("1.1" :> 110)

\* The filters of the rules, in the order the spec gives them.
RuleFilters ==
    <<[term |-> [name |-> "pseudogene"]], [term |-> [taxid |-> PyInt(9606)]],
      [term |-> [taxid |-> PyInt(10090)]], [term |-> [taxid |-> PyInt(10116)]]>>

\* C14: every compiled scoped-identifier query and every compiled query
\* that is not a genomic interval has as its 'query' a function-score
\* envelope with score mode 'first' around the base query under the scope
\* filters, with the same four rules in the same order: a factor below 1 for
\* the name pseudogene, then human > mouse > rat > 1.
C14_ScoreEnvelope ==
    ScoredCall =>
        /\ DOMAIN ret.query = {"function_score"}
        /\ LET fs == ret.query.function_score
               f == fs.functions
           IN /\ fs.score_mode = "first"
              /\ Len(f) = 4
              /\ \A i \in 1..4 : f[i].filter = RuleFilters[i]
              /\ \A i \in 1..4 : f[i].boost_factor \in DOMAIN FactorValue
              /\ FactorValue[f[1].boost_factor] < 100
              /\ FactorValue[f[2].boost_factor] > FactorValue[f[3].boost_factor]
              /\ FactorValue[f[3].boost_factor] > FactorValue[f[4].boost_factor]
              /\ FactorValue[f[4].boost_factor] > 100
              /\ get_query_filters(esqb) # PyList(<<>>)
                    => /\ DOMAIN fs.query = {"filtered"}
                       /\ fs.query.filtered.filter = get_query_filters(esqb)
              /\ call.op = "build_id_query"
                    => fs.query = add_query_filters(esqb, IdBaseOf(ret))

\* A zero-hit scoped-identifier query, on a builder given pass-through
\* options, inside the envelope.
C14_Witness ==
    /\ ScoredCall
    /\ call.op = "build_id_query"
    /\ IdBaseOf(ret) = ZeroHitQuery
    /\ DOMAIN esqb._query_options # {}
    /\ ret.query.function_score.score_mode = "first"

\* The last call was build_id_query with a sequence of scope fields, and it
\* returned a compiled query.
SeqScopeCall ==
    /\ call.op = "build_id_query"
    /\ call.scopes.t = "list"
    /\ IsCompiled(ret)

\* The scope fields of the last call that are not integer-only, and those
\* that are.
OtherFields == SelectSeq(call.scopes.v, LAMBDA f : f \notin {"entrezgene", "retired"})
IntFields == SelectSeq(call.scopes.v, LAMBDA f : f \in {"entrezgene", "retired"})

\* A base query searches the id in the fields fs with an AND-token
\* multi-field match.
SearchesFields(base, fs) ==
    /\ "multi_match" \in DOMAIN base
    /\ "operator" \in DOMAIN base.multi_match
    /\ base.multi_match.operator = "and"
    /\ base.multi_match.fields = fs
    /\ base.multi_match.query = PyFormat(call.id)

\* C15: with a sequence of scope fields, the zero-hit query is the base
\* query only when no field is usable (no field besides the integer-only
\* ones, and no integer-only field for an integer-shaped id); when the
\* sequence holds a field besides the integer-only ones, the id, integer-
\* shaped or not, is searched in those fields with an AND-token multi-field
\* match.
C15_SequenceScopes ==
    SeqScopeCall =>
        /\ IdBaseOf(ret) = ZeroHitQuery
              => /\ OtherFields = <<>>
                 /\ (~is_int(call.id) \/ IntFields = <<>>)
        /\ (OtherFields # <<>> /\ ~is_int(call.id))
              => SearchesFields(IdBaseOf(ret), OtherFields)
        /\ (OtherFields # <<>> /\ is_int(call.id) /\ IntFields = <<>>)
              => SearchesFields(IdBaseOf(ret), OtherFields)

\* The option map the builder was constructed from, while the last call is
\* the construction.
GivenOptions == kwargs @@ call.options

\* The allow-list and the consumed keys, as the spec gives them.
AllowList ==
    {"fields", "_source", "start", "from", "size", "sort", "explain", "version",
     "aggs", "dotfield"}
FilterKeys ==
    {"species", "species_facet_filter", "entrezonly", "ensemblonly", "userfilter",
     "exists", "missing"}

\* The normalized options hold only allow-listed keys, none of the consumed
\* keys, and every allow-listed option given, besides the field selection,
\* with its value.
OnlyAllowed ==
    /\ DOMAIN esqb._query_options \subseteq AllowList
    /\ DOMAIN esqb._query_options \cap FilterKeys = {}
    /\ \A k \in (DOMAIN GivenOptions \cap AllowList) \ {"fields", "_source"} :
          k \in DOMAIN esqb._query_options /\ esqb._query_options[k] = GivenOptions[k]

\* The field selection given as 'fields' is found under '_source' only.
FieldsRenamed ==
    /\ "fields" \notin DOMAIN esqb._query_options
    /\ "_source" \in DOMAIN esqb._query_options
    /\ esqb._query_options["_source"] = GivenOptions["fields"]

\* A compiled query carries exactly the normalized options next to 'query'
\* (and next to the post-filter, when there is one).
CarriesOptions ==
    (call.op \in {"query", "build_id_query", "build_genomic_pos_query"}
       /\ IsCompiled(ret))
      => /\ DOMAIN ret \ {"query", "filter"} = DOMAIN esqb._query_options
         /\ \A k \in DOMAIN esqb._query_options : ret[k] = esqb._query_options[k]

\* C16 as stated: whenever the option map has a 'fields' key, the
\* normalized options have it under '_source' and not under 'fields'.
C16_Original ==
    /\ call.op = "ESQueryBuilder"
          => /\ OnlyAllowed
             /\ "fields" \in DOMAIN GivenOptions => FieldsRenamed
    /\ CarriesOptions

\* C16: the normalized options hold only allow-listed keys and none of the
\* consumed keys; a 'fields' option whose value is not None is found under
\* '_source' only, while a 'fields' option that is None stays under 'fields'
\* and '_source' is as given; every compiled query carries exactly the
\* normalized options.
C16_Normalized ==
    /\ call.op = "ESQueryBuilder"
          => /\ OnlyAllowed
             /\ ("fields" \in DOMAIN GivenOptions /\ GivenOptions["fields"] # PyNone)
                   => FieldsRenamed
             /\ ("fields" \in DOMAIN GivenOptions /\ GivenOptions["fields"] = PyNone)
                   => /\ "fields" \in DOMAIN esqb._query_options
                      /\ esqb._query_options["fields"] = PyNone
                      /\ "_source" \in DOMAIN esqb._query_options
                            <=> "_source" \in DOMAIN GivenOptions
             /\ "fields" \notin DOMAIN GivenOptions
                   => /\ "fields" \notin DOMAIN esqb._query_options
                      /\ "_source" \in DOMAIN esqb._query_options
                            <=> "_source" \in DOMAIN GivenOptions
    /\ CarriesOptions

\* A compiled query carrying a renamed field selection and an allow-listed
\* option, from a builder that was also given an unknown option and a filter
\* setting.
C16_Witness ==
    /\ call.op = "query"
    /\ IsCompiled(ret)
    /\ esqb.entrezonly = TRUE
    /\ "_source" \in DOMAIN ret /\ ret["_source"] = PyStr(s_symbol)
    /\ "size" \in DOMAIN ret
    /\ DOMAIN ret \cap {"fields", "callback", "entrezonly"} = {}

\* No _search or _msearch call is in progress on the instance.
NoSearchRunning == pc # "searching" /\ \A t \in Threads : searches[t].pc = "idle"

\* C17: whenever no search is in progress the instance's index is the full
\* index, whether the last engine call returned or raised, and metadata
\* never reads a tier-1 index left over from a search.
C17_IndexResetWhenIdle ==
    /\ NoSearchRunning => _index = ES_INDEX_NAME
    /\ call.op = "metadata" => call.index = ES_INDEX_NAME

====
